---- MODULE Spec2Model ----
(***************************************************************************)
(* State-machine model of the restaurant manager backend (src/main.py):    *)
(* the bearer-token authentication (login, get_current_user), the menu     *)
(* handlers over menu_category and menu_item, and the read-only order and  *)
(* statistics handlers, each handler one atomic action over the tables.    *)
(*                                                                         *)
(* Conventions                                                             *)
(*  - a table is the set of its rows, a row is a record of its columns;    *)
(*  - a request body is a record of its schema's fields, each field the    *)
(*    empty set when the caller left it out and {v} when the caller sent   *)
(*    v, so that dict(exclude_unset=True) is the fields that are not {};   *)
(*  - the clock counts hours; Null stands for SQL NULL / Python None;      *)
(*  - resp is the last request handled and its response.                   *)
(***************************************************************************)
EXTENDS Integers, Sequences, FiniteSets, TLC

VARIABLES
    now,              \* datetime.utcnow(), in hours
    manager_user,     \* table manager_user
    menu_category,    \* table menu_category
    menu_item,        \* table menu_item
    orders,           \* table orders
    order_item,       \* table order_item
    order_event_log,  \* table order_event_log
    category_seq,     \* next value of menu_category.id's sequence
    item_seq,         \* next value of menu_item.id's sequence
    fk_enforced,      \* whether the database enforces the declared foreign keys
    issued,           \* tokens login has returned and clients still hold
    resp              \* the last request and its response

vars == <<now, manager_user, menu_category, menu_item, orders, order_item,
          order_event_log, category_seq, item_seq, fk_enforced, issued, resp>>

menuVars == <<menu_category, menu_item, category_seq, item_seq>>
orderVars == <<orders, order_item, order_event_log>>
authVars == <<now, manager_user, issued>>

----------------------------------------------------------------------------
\* Bounds of the model

\* the clock stops at MaxTime hours
MaxTime == 18
\* clients hold at most MaxTokens tokens at a time
MaxTokens == 1
\* category and item ids range over 1..MaxId
MaxId == 2
\* the ordering pipeline places at most MaxOrders orders
MaxOrders == 1

----------------------------------------------------------------------------
\* Program constants

TokenTTLHours == 12
JWT_SECRET == "supersecretjwt"
OtherSecret == "not-the-secret"
TopLimit == 10

StatusOK == 200
StatusBadRequest == 400
StatusUnauthorized == 401
StatusNotFound == 404
StatusUnprocessable == 422
StatusInternal == 500

Null == "NULL"
\* the path parameter of a request: {id}, or none
NoId == {}
NoBody == [kind |-> "none"]

\* the clock advances in steps of half a token lifetime
ClockStep == TokenTTLHours \div 2

Val(s) == CHOOSE v \in s : TRUE

----------------------------------------------------------------------------
\* str(int) and int(str): decimal strings are sequences of characters

Digits == <<"0", "1", "2", "3", "4", "5", "6", "7", "8", "9">>

DigitChars == {Digits[i] : i \in 1..10}

DigitOf(c) == (CHOOSE i \in 1..10 : Digits[i] = c) - 1

RECURSIVE IntToStr(_)
IntToStr(n) ==
    IF n < 0 THEN <<"-">> \o IntToStr(-n)
    ELSE IF n < 10 THEN <<Digits[n + 1]>>
    ELSE Append(IntToStr(n \div 10), Digits[(n % 10) + 1])

\* the strings int() accepts: an optional minus sign and at least one digit
IsIntLiteral(s) ==
    LET body == IF Len(s) > 0 /\ s[1] = "-" THEN Tail(s) ELSE s
    IN  /\ Len(body) > 0
        /\ \A i \in 1..Len(body) : body[i] \in DigitChars

RECURSIVE DigitsToInt(_)
DigitsToInt(s) ==
    IF Len(s) = 0 THEN 0
    ELSE 10 * DigitsToInt(SubSeq(s, 1, Len(s) - 1)) + DigitOf(s[Len(s)])

StrToInt(s) == IF s[1] = "-" THEN -DigitsToInt(Tail(s)) ELSE DigitsToInt(s)

----------------------------------------------------------------------------
\* JWT: a token is the claims it carries and the key that signed it

NoToken == [kind |-> "none", key |-> "", has_sub |-> FALSE, sub |-> <<>>,
            role |-> "", exp |-> 0]

GarbageToken == [kind |-> "garbage", key |-> "", has_sub |-> FALSE, sub |-> <<>>,
                 role |-> "", exp |-> 0]

\* jwt.encode(claims, key)
JwtEncode(key, has_sub, sub, role, exp) ==
    [kind |-> "jwt", key |-> key, has_sub |-> has_sub, sub |-> sub,
     role |-> role, exp |-> exp]

\* the expiry jwt.encode stores for a token made at time t
TokenExpiry(t) == t + TokenTTLHours

\* the sub claim of a user's token
SubFirstDigit(id) == <<Head(IntToStr(id))>>
SubOf(id) == IntToStr(id)

create_access_token(id, role, t) ==
    JwtEncode(JWT_SECRET, TRUE, SubOf(id), role, TokenExpiry(t))

\* jwt.decode(token, JWT_SECRET) succeeds at time t
JwtDecodesUnverified(token, t) == token.kind = "jwt"
JwtDecodesNoExpiry(token, t) == token.kind = "jwt" /\ token.key = JWT_SECRET
JwtDecodes(token, t) ==
    /\ token.kind = "jwt"
    /\ token.key = JWT_SECRET
    /\ ~(token.exp <= t)

\* the rows get_current_user returns for a token at time t: none is 401
get_current_user(token, t, users) ==
    IF ~JwtDecodes(token, t) THEN {}
    ELSE IF ~token.has_sub THEN {}
    ELSE IF ~IsIntLiteral(token.sub) THEN {}
    ELSE {u \in users : u.id = StrToInt(token.sub)}

\* Depends(get_current_user) of a handler
Authorized(tok) == get_current_user(tok, now, manager_user) # {}

----------------------------------------------------------------------------
\* Sessions: SessionLocal() calls made for a request, and close() calls

BusinessOps == {"get_me", "get_categories", "add_category", "update_category",
                "delete_category", "get_menu_items", "add_menu_item",
                "update_menu_item", "delete_menu_item", "block_menu_item",
                "get_orders", "get_order_details", "orders_daily",
                "top_menu_items"}

OpenOps == {"test_db_connection", "hello_debug", "debug_secret"}

SessionsOpened(op, tok) ==
    IF op = "login" THEN 1
    ELSE IF op \in OpenOps THEN 0
    ELSE IF op = "get_me" THEN (IF tok.kind = "none" THEN 0 ELSE 1)
    ELSE IF tok.kind = "none" THEN 1 ELSE 2

SessionsClosed(op, tok) == 0

Reply(op, tok, id, status, body) ==
    resp' = [op |-> op, token |-> tok, id |-> id, status |-> status, body |-> body,
             opened |-> SessionsOpened(op, tok), closed |-> SessionsClosed(op, tok)]

----------------------------------------------------------------------------
\* Schemas and rows

\* the fields of MenuCategorySchema and MenuItemSchema that have no default
CategoryRequired == {"name_pl", "name_en"}
ItemRequired == {"category_id", "name_pl", "name_en", "price_cents"}

\* request validation: every required field is in the body
ValidBody(b, required) == \A f \in required : b[f] # {}

\* dict(exclude_unset=True): the fields the caller sent
SetFields(b) == {f \in DOMAIN b : b[f] # {}}

\* for k, v in upd.dict(exclude_unset=True).items(): setattr(obj, k, v)
Patch(row, b) == [f \in DOMAIN row |-> IF f \in SetFields(b) THEN Val(b[f]) ELSE row[f]]

\* MenuCategory(**cat.dict(exclude_unset=True)) once inserted: the id is the
\* caller's when sent, else the sequence's; a column left out is NULL
NewCategory(cat, autoid) ==
    [id |-> IF cat.id = {} THEN autoid ELSE Val(cat.id),
     name_pl |-> Val(cat.name_pl),
     name_en |-> Val(cat.name_en),
     image_url |-> IF cat.image_url = {} THEN Null ELSE Val(cat.image_url)]

\* MenuItem(**item.dict(exclude_unset=True)) once inserted
NewItem(item, autoid) ==
    [id |-> IF item.id = {} THEN autoid ELSE Val(item.id),
     category_id |-> Val(item.category_id),
     name_pl |-> Val(item.name_pl),
     name_en |-> Val(item.name_en),
     price_cents |-> Val(item.price_cents),
     image_url |-> IF item.image_url = {} THEN Null ELSE Val(item.image_url),
     is_available |-> IF item.is_available = {} THEN TRUE ELSE Val(item.is_available)]

\* db.query(T).filter(T.id == id): first() is its only row, the id being the key
CategoryById(id) == {c \in menu_category : c.id = id}
ItemById(id) == {i \in menu_item : i.id = id}
OrderById(id) == {o \in orders : o.id = id}

\* the foreign keys of menu_item.category_id and order_item.menu_item_id
ItemsOfCategory(id) == {i \in menu_item : i.category_id = id}
OrderItemsOfItem(id) == {oi \in order_item : oi.menu_item_id = id}

\* what deleting menu item id leaves of order_item (the key declares no cascade)
OrderItemsCascade(id) == order_item \ OrderItemsOfItem(id)
OrderItemsAfterItemDelete(id) == order_item

\* what deleting category id leaves of menu_item (no cascade either)
ItemsAfterCategoryDelete(id) == menu_item

----------------------------------------------------------------------------
\* Authentication handlers

\* POST /auth/login
login(username, password) ==
    LET found == {u \in manager_user : u.username = username}
    IN  /\ UNCHANGED <<now, manager_user, menuVars, orderVars, fk_enforced>>
        /\ IF found = {} \/ Val(found).password_hash # password
           THEN /\ Reply("login", NoToken, NoId, StatusBadRequest, NoBody)
                /\ UNCHANGED issued
           ELSE LET user == Val(found)
                    token == create_access_token(user.id, user.role, now)
                    grant == [access_token |-> token, uid |-> user.id,
                              username |-> username, at |-> now]
                    held == issued \cup {grant}
                IN  /\ Cardinality(held) <= MaxTokens
                    /\ issued' = held
                    /\ Reply("login", NoToken, NoId, StatusOK, [access_token |-> token])

\* GET /auth/me
get_me(tok) ==
    /\ UNCHANGED <<authVars, menuVars, orderVars, fk_enforced>>
    /\ IF ~Authorized(tok)
       THEN Reply("get_me", tok, NoId, StatusUnauthorized, NoBody)
       ELSE LET u == Val(get_current_user(tok, now, manager_user))
            IN  Reply("get_me", tok, NoId, StatusOK,
                      [id |-> u.id, username |-> u.username, roles |-> <<u.role>>])

----------------------------------------------------------------------------
\* Menu handlers: categories

\* GET /menu/categories
get_categories(tok) ==
    /\ UNCHANGED <<authVars, menuVars, orderVars, fk_enforced>>
    /\ IF ~Authorized(tok)
       THEN Reply("get_categories", tok, NoId, StatusUnauthorized, NoBody)
       ELSE Reply("get_categories", tok, NoId, StatusOK, menu_category)

\* POST /menu/categories
add_category(tok, cat) ==
    /\ UNCHANGED <<authVars, orderVars, fk_enforced, menu_item, item_seq>>
    /\ IF ~Authorized(tok)
       THEN /\ Reply("add_category", tok, NoId, StatusUnauthorized, NoBody)
            /\ UNCHANGED <<menu_category, category_seq>>
       ELSE IF ~ValidBody(cat, CategoryRequired)
       THEN /\ Reply("add_category", tok, NoId, StatusUnprocessable, NoBody)
            /\ UNCHANGED <<menu_category, category_seq>>
       ELSE LET obj == NewCategory(cat, category_seq)
            IN  /\ cat.id = {} => category_seq <= MaxId
                /\ category_seq' = IF cat.id = {} THEN category_seq + 1 ELSE category_seq
                /\ IF CategoryById(obj.id) # {}
                   THEN /\ Reply("add_category", tok, NoId, StatusInternal, NoBody)
                        /\ UNCHANGED menu_category
                   ELSE /\ menu_category' = menu_category \cup {obj}
                        /\ Reply("add_category", tok, NoId, StatusOK, obj)

\* PUT /menu/categories/{id}
update_category(tok, id, upd) ==
    /\ UNCHANGED <<authVars, orderVars, fk_enforced, menu_item, item_seq, category_seq>>
    /\ IF ~Authorized(tok)
       THEN /\ Reply("update_category", tok, {id}, StatusUnauthorized, NoBody)
            /\ UNCHANGED menu_category
       ELSE IF ~ValidBody(upd, CategoryRequired)
       THEN /\ Reply("update_category", tok, {id}, StatusUnprocessable, NoBody)
            /\ UNCHANGED menu_category
       ELSE IF CategoryById(id) = {}
       THEN /\ Reply("update_category", tok, {id}, StatusNotFound, NoBody)
            /\ UNCHANGED menu_category
       ELSE LET obj == Val(CategoryById(id))
                new == Patch(obj, upd)
                duplicate == new.id # id /\ CategoryById(new.id) # {}
                referenced == fk_enforced /\ new.id # id /\ ItemsOfCategory(id) # {}
            IN  IF duplicate \/ referenced
                THEN /\ Reply("update_category", tok, {id}, StatusInternal, NoBody)
                     /\ UNCHANGED menu_category
                ELSE /\ menu_category' = (menu_category \ {obj}) \cup {new}
                     /\ Reply("update_category", tok, {id}, StatusOK, new)

\* DELETE /menu/categories/{id}
delete_category_idempotent(tok, id) ==
    /\ UNCHANGED <<authVars, orderVars, fk_enforced, item_seq, category_seq>>
    /\ IF ~Authorized(tok)
       THEN /\ Reply("delete_category", tok, {id}, StatusUnauthorized, NoBody)
            /\ UNCHANGED <<menu_category, menu_item>>
       ELSE IF fk_enforced /\ ItemsOfCategory(id) # {}
       THEN /\ Reply("delete_category", tok, {id}, StatusInternal, NoBody)
            /\ UNCHANGED <<menu_category, menu_item>>
       ELSE /\ menu_category' = menu_category \ CategoryById(id)
            /\ menu_item' = ItemsAfterCategoryDelete(id)
            /\ Reply("delete_category", tok, {id}, StatusOK, NoBody)

delete_category(tok, id) ==
    /\ UNCHANGED <<authVars, orderVars, fk_enforced, item_seq, category_seq>>
    /\ IF ~Authorized(tok)
       THEN /\ Reply("delete_category", tok, {id}, StatusUnauthorized, NoBody)
            /\ UNCHANGED <<menu_category, menu_item>>
       ELSE IF CategoryById(id) = {}
       THEN /\ Reply("delete_category", tok, {id}, StatusNotFound, NoBody)
            /\ UNCHANGED <<menu_category, menu_item>>
       ELSE IF fk_enforced /\ ItemsOfCategory(id) # {}
       THEN /\ Reply("delete_category", tok, {id}, StatusInternal, NoBody)
            /\ UNCHANGED <<menu_category, menu_item>>
       ELSE /\ menu_category' = menu_category \ CategoryById(id)
            /\ menu_item' = ItemsAfterCategoryDelete(id)
            /\ Reply("delete_category", tok, {id}, StatusOK, NoBody)

----------------------------------------------------------------------------
\* Menu handlers: items

\* GET /menu/items
get_menu_items(tok) ==
    /\ UNCHANGED <<authVars, menuVars, orderVars, fk_enforced>>
    /\ IF ~Authorized(tok)
       THEN Reply("get_menu_items", tok, NoId, StatusUnauthorized, NoBody)
       ELSE Reply("get_menu_items", tok, NoId, StatusOK, menu_item)

\* POST /menu/items
add_menu_item(tok, item) ==
    /\ UNCHANGED <<authVars, orderVars, fk_enforced, menu_category, category_seq>>
    /\ IF ~Authorized(tok)
       THEN /\ Reply("add_menu_item", tok, NoId, StatusUnauthorized, NoBody)
            /\ UNCHANGED <<menu_item, item_seq>>
       ELSE IF ~ValidBody(item, ItemRequired)
       THEN /\ Reply("add_menu_item", tok, NoId, StatusUnprocessable, NoBody)
            /\ UNCHANGED <<menu_item, item_seq>>
       ELSE LET obj == NewItem(item, item_seq)
                dangling == fk_enforced /\ CategoryById(obj.category_id) = {}
            IN  /\ item.id = {} => item_seq <= MaxId
                /\ item_seq' = IF item.id = {} THEN item_seq + 1 ELSE item_seq
                /\ IF ItemById(obj.id) # {} \/ dangling
                   THEN /\ Reply("add_menu_item", tok, NoId, StatusInternal, NoBody)
                        /\ UNCHANGED menu_item
                   ELSE /\ menu_item' = menu_item \cup {obj}
                        /\ Reply("add_menu_item", tok, NoId, StatusOK, obj)

\* PUT /menu/items/{id}
update_menu_item(tok, id, upd) ==
    /\ UNCHANGED <<authVars, orderVars, fk_enforced, menu_category, category_seq, item_seq>>
    /\ IF ~Authorized(tok)
       THEN /\ Reply("update_menu_item", tok, {id}, StatusUnauthorized, NoBody)
            /\ UNCHANGED menu_item
       ELSE IF ~ValidBody(upd, ItemRequired)
       THEN /\ Reply("update_menu_item", tok, {id}, StatusUnprocessable, NoBody)
            /\ UNCHANGED menu_item
       ELSE IF ItemById(id) = {}
       THEN /\ Reply("update_menu_item", tok, {id}, StatusNotFound, NoBody)
            /\ UNCHANGED menu_item
       ELSE LET obj == Val(ItemById(id))
                new == Patch(obj, upd)
                duplicate == new.id # id /\ ItemById(new.id) # {}
                dangling == /\ fk_enforced
                            /\ new.category_id # obj.category_id
                            /\ CategoryById(new.category_id) = {}
                referenced == fk_enforced /\ new.id # id /\ OrderItemsOfItem(id) # {}
            IN  IF duplicate \/ dangling \/ referenced
                THEN /\ Reply("update_menu_item", tok, {id}, StatusInternal, NoBody)
                     /\ UNCHANGED menu_item
                ELSE /\ menu_item' = (menu_item \ {obj}) \cup {new}
                     /\ Reply("update_menu_item", tok, {id}, StatusOK, new)

\* DELETE /menu/items/{id}
delete_menu_item(tok, id) ==
    /\ UNCHANGED <<authVars, fk_enforced, menu_category, category_seq, item_seq,
                   orders, order_event_log>>
    /\ IF ~Authorized(tok)
       THEN /\ Reply("delete_menu_item", tok, {id}, StatusUnauthorized, NoBody)
            /\ UNCHANGED <<menu_item, order_item>>
       ELSE IF ItemById(id) = {}
       THEN /\ Reply("delete_menu_item", tok, {id}, StatusNotFound, NoBody)
            /\ UNCHANGED <<menu_item, order_item>>
       ELSE IF fk_enforced /\ OrderItemsOfItem(id) # {}
       THEN /\ Reply("delete_menu_item", tok, {id}, StatusInternal, NoBody)
            /\ UNCHANGED <<menu_item, order_item>>
       ELSE /\ menu_item' = menu_item \ ItemById(id)
            /\ order_item' = OrderItemsAfterItemDelete(id)
            /\ Reply("delete_menu_item", tok, {id}, StatusOK, NoBody)

\* POST /menu/items/{id}/block?is_available=
block_menu_item(tok, id, is_available) ==
    /\ UNCHANGED <<authVars, orderVars, fk_enforced, menu_category, category_seq, item_seq>>
    /\ IF ~Authorized(tok)
       THEN /\ Reply("block_menu_item", tok, {id}, StatusUnauthorized, NoBody)
            /\ UNCHANGED menu_item
       ELSE IF is_available = {}
       THEN /\ Reply("block_menu_item", tok, {id}, StatusUnprocessable, NoBody)
            /\ UNCHANGED menu_item
       ELSE IF ItemById(id) = {}
       THEN /\ Reply("block_menu_item", tok, {id}, StatusNotFound, NoBody)
            /\ UNCHANGED menu_item
       ELSE LET obj == Val(ItemById(id))
                new == [obj EXCEPT !.is_available = Val(is_available)]
            IN  /\ menu_item' = (menu_item \ {obj}) \cup {new}
                /\ Reply("block_menu_item", tok, {id}, StatusOK,
                         [is_available |-> new.is_available])

----------------------------------------------------------------------------
\* Order reporting handlers

DateOf(t) == t \div 24

RECURSIVE SumQuantity(_)
SumQuantity(S) ==
    IF S = {} THEN 0
    ELSE LET oi == CHOOSE x \in S : TRUE
         IN  oi.quantity + SumQuantity(S \ {oi})

\* order_by(sum desc): the rows, largest sold_count first
RECURSIVE SortBySold(_)
SortBySold(S) ==
    IF S = {} THEN <<>>
    ELSE LET top == CHOOSE x \in S : \A y \in S : y.sold_count <= x.sold_count
         IN  <<top>> \o SortBySold(S \ {top})

\* limit(n)
Limit(seq, n) == SubSeq(seq, 1, IF Len(seq) < n THEN Len(seq) ELSE n)

\* GET /orders
get_orders(tok, status, date_from, date_to) ==
    /\ UNCHANGED <<authVars, menuVars, orderVars, fk_enforced>>
    /\ IF ~Authorized(tok)
       THEN Reply("get_orders", tok, NoId, StatusUnauthorized, NoBody)
       ELSE Reply("get_orders", tok, NoId, StatusOK,
                  {o \in orders :
                      /\ status = {} \/ o.status = Val(status)
                      /\ date_from = {} \/ o.created_at >= Val(date_from)
                      /\ date_to = {} \/ o.created_at <= Val(date_to)})

\* GET /orders/{order_id}
get_order_details(tok, order_id) ==
    /\ UNCHANGED <<authVars, menuVars, orderVars, fk_enforced>>
    /\ IF ~Authorized(tok)
       THEN Reply("get_order_details", tok, {order_id}, StatusUnauthorized, NoBody)
       ELSE IF OrderById(order_id) = {}
       THEN Reply("get_order_details", tok, {order_id}, StatusNotFound, NoBody)
       ELSE LET items == {<<oi, mi>> \in order_item \X menu_item :
                              oi.menu_item_id = mi.id /\ oi.order_id = order_id}
                events == {e \in order_event_log : e.order_id = order_id}
            IN  Reply("get_order_details", tok, {order_id}, StatusOK,
                      [order |-> Val(OrderById(order_id)),
                       items |-> {[id |-> p[1].id, menu_item_id |-> p[1].menu_item_id,
                                   name |-> p[2].name_pl, quantity |-> p[1].quantity]
                                  : p \in items},
                       events |-> {[id |-> e.id, event_type |-> e.event_type,
                                    terminal_name |-> e.terminal_name,
                                    timestamp |-> e.timestamp,
                                    new_status |-> e.new_status] : e \in events}])

\* GET /stats/orders/daily
orders_daily(tok, date) ==
    /\ UNCHANGED <<authVars, menuVars, orderVars, fk_enforced>>
    /\ IF ~Authorized(tok)
       THEN Reply("orders_daily", tok, NoId, StatusUnauthorized, NoBody)
       ELSE LET day == IF date = {} THEN DateOf(now) ELSE Val(date)
                ready == {e \in order_event_log :
                             e.event_type = "ready" /\ DateOf(e.timestamp) = day}
            IN  Reply("orders_daily", tok, NoId, StatusOK,
                      {[terminal_name |-> t,
                        orders_count |-> Cardinality({e \in ready : e.terminal_name = t})]
                       : t \in {e.terminal_name : e \in ready}})

\* GET /stats/menu-items/top
top_menu_items(tok, date_from, date_to) ==
    /\ UNCHANGED <<authVars, menuVars, orderVars, fk_enforced>>
    /\ IF ~Authorized(tok)
       THEN Reply("top_menu_items", tok, NoId, StatusUnauthorized, NoBody)
       ELSE LET inRange == {o \in orders :
                               /\ date_from = {} \/ o.created_at >= Val(date_from)
                               /\ date_to = {} \/ o.created_at <= Val(date_to)}
                sold(mi) == {oi \in order_item :
                               /\ oi.menu_item_id = mi.id
                               /\ \E o \in inRange : o.id = oi.order_id}
                rows == {[menu_item_id |-> mi.id, name |-> mi.name_pl,
                          sold_count |-> SumQuantity(sold(mi))]
                         : mi \in {m \in menu_item : sold(m) # {}}}
            IN  Reply("top_menu_items", tok, NoId, StatusOK, Limit(SortBySold(rows), TopLimit))

----------------------------------------------------------------------------
\* Unauthenticated diagnostics

\* GET /test-db
test_db_connection ==
    /\ UNCHANGED <<authVars, menuVars, orderVars, fk_enforced>>
    /\ Reply("test_db_connection", NoToken, NoId, StatusOK, [db |-> "ok"])

\* GET /hello-debug
hello_debug ==
    /\ UNCHANGED <<authVars, menuVars, orderVars, fk_enforced>>
    /\ Reply("hello_debug", NoToken, NoId, StatusOK, [msg |-> "hello from new code"])

\* GET /debug-secret
debug_secret ==
    /\ UNCHANGED <<authVars, menuVars, orderVars, fk_enforced>>
    /\ Reply("debug_secret", NoToken, NoId, StatusOK, [JWT_SECRET |-> JWT_SECRET])

----------------------------------------------------------------------------
\* The environment: the clock, the clients, the ordering pipeline and the
\* out-of-band provisioning of users

Idle == [op |-> "none", token |-> NoToken, id |-> NoId, status |-> 0, body |-> NoBody,
         opened |-> 0, closed |-> 0]

Tick ==
    /\ now + ClockStep <= MaxTime
    /\ now' = now + ClockStep
    /\ resp' = Idle
    /\ UNCHANGED <<manager_user, issued, menuVars, orderVars, fk_enforced>>

DiscardToken(t) ==
    /\ issued' = issued \ {t}
    /\ resp' = Idle
    /\ UNCHANGED <<now, manager_user, menuVars, orderVars, fk_enforced>>

ExternalDeleteUser(u) ==
    /\ manager_user' = manager_user \ {u}
    /\ resp' = Idle
    /\ UNCHANGED <<now, issued, menuVars, orderVars, fk_enforced>>

\* the ordering pipeline writes an order, its line item and its ready event
ExternalPlaceOrder(m) ==
    LET n == Cardinality(orders) + 1
    IN  /\ n <= MaxOrders
        /\ fk_enforced => ItemById(m) # {}
        /\ orders' = orders \cup
               {[id |-> n, order_number |-> n, status |-> "ready", type |-> "dine-in",
                 created_at |-> now, ready_at |-> now, language |-> "pl"]}
        /\ order_item' = order_item \cup
               {[id |-> n, order_id |-> n, menu_item_id |-> m, quantity |-> 2]}
        /\ order_event_log' = order_event_log \cup
               {[id |-> n, order_id |-> n, event_type |-> "ready",
                 terminal_name |-> "T1", timestamp |-> now, new_status |-> "ready"]}
        /\ resp' = Idle
        /\ UNCHANGED <<authVars, menuVars, fk_enforced>>

----------------------------------------------------------------------------
\* Initial state and inputs

Users == {[id |-> 1, username |-> "ann", password_hash |-> "pw1", role |-> "manager"],
          [id |-> 12, username |-> "bob", password_hash |-> "pw2", role |-> "manager"]}

Init ==
    /\ now = 0
    /\ manager_user = Users
    /\ menu_category = {}
    /\ menu_item = {}
    /\ orders = {}
    /\ order_item = {}
    /\ order_event_log = {}
    /\ category_seq = 1
    /\ item_seq = 1
    /\ fk_enforced \in BOOLEAN
    /\ issued = {}
    /\ resp = Idle

\* a database whose sequences have reached MaxId: the rows below it were
\* created and deleted before
InitLate ==
    /\ now = 0
    /\ manager_user = Users
    /\ menu_category = {}
    /\ menu_item = {}
    /\ orders = {}
    /\ order_item = {}
    /\ order_event_log = {}
    /\ category_seq = MaxId
    /\ item_seq = MaxId
    /\ fk_enforced \in BOOLEAN
    /\ issued = {}
    /\ resp = Idle

Usernames == {"ann", "bob", "eve"}
Passwords == {"pw1", "pw2"}

Ids == 1..MaxId
Opt(S) == {{}} \cup {{v} : v \in S}

\* tokens no login issued: no header, not a JWT, signed with another key,
\* signed with the key but with no sub claim, or with a sub that is no number
ForgedTokens ==
    {NoToken, GarbageToken,
     JwtEncode(OtherSecret, TRUE, SubOf(1), "manager", MaxTime + TokenTTLHours),
     JwtEncode(JWT_SECRET, FALSE, <<>>, "manager", MaxTime + TokenTTLHours),
     JwtEncode(JWT_SECRET, TRUE, <<"x">>, "manager", MaxTime + TokenTTLHours)}

IssuedTokens == {t.access_token : t \in issued}
Tokens == IssuedTokens \cup ForgedTokens
ClientTokens == IssuedTokens \cup {NoToken}

\* one well-formed body of each schema, the id left to the database
CategoryBody == [id |-> {}, name_pl |-> {"a"}, name_en |-> {"a"}, image_url |-> {}]
ItemBody(c) == [id |-> {}, category_id |-> {c}, name_pl |-> {"a"}, name_en |-> {"a"},
                price_cents |-> {100}, image_url |-> {}, is_available |-> {}]

\* bodies with and without a required field
CategoryBodiesSmall ==
    [id : {{}}, name_pl : {{"a"}}, name_en : Opt({"a"}), image_url : {{}}]
ItemBodiesSmall ==
    [id : {{}}, category_id : {{1}}, name_pl : {{"a"}}, name_en : Opt({"a"}),
     price_cents : {{100}}, image_url : {{}}, is_available : {{}}]

\* bodies over every choice of sent and unsent fields
CategoryBodies ==
    [id : Opt(Ids), name_pl : Opt({"a", "b"}), name_en : Opt({"a"}),
     image_url : {{}}]
ItemBodies ==
    [id : Opt(Ids), category_id : Opt(Ids), name_pl : Opt({"a"}),
     name_en : {{"a"}}, price_cents : {{100}}, image_url : {{}},
     is_available : {{}}]

----------------------------------------------------------------------------
\* SpecAuth: every kind of token against every handler, while the clock runs,
\* clients log in and users are removed

NextAuth ==
    \/ Tick
    \/ \E t \in issued : DiscardToken(t)
    \/ \E u \in manager_user : ExternalDeleteUser(u)
    \/ \E u \in Usernames, p \in Passwords : login(u, p)
    \/ \E tok \in Tokens : get_me(tok)
    \/ \E tok \in Tokens : get_categories(tok)
    \/ \E tok \in Tokens : add_category(tok, CategoryBody)
    \/ \E tok \in Tokens : update_category(tok, MaxId, CategoryBody)
    \/ \E tok \in Tokens : delete_category(tok, MaxId)
    \/ \E tok \in Tokens : get_menu_items(tok)
    \/ \E tok \in Tokens : add_menu_item(tok, ItemBody(MaxId))
    \/ \E tok \in Tokens : update_menu_item(tok, MaxId, ItemBody(MaxId))
    \/ \E tok \in Tokens : delete_menu_item(tok, MaxId)
    \/ \E tok \in Tokens : block_menu_item(tok, MaxId, {FALSE})
    \/ \E tok \in Tokens : get_orders(tok, {}, {}, {})
    \/ \E tok \in Tokens : get_order_details(tok, 1)
    \/ \E tok \in Tokens : orders_daily(tok, {})
    \/ \E tok \in Tokens : top_menu_items(tok, {}, {})

InitAuth == InitLate /\ fk_enforced

SpecAuth == InitAuth /\ [][NextAuth]_vars

----------------------------------------------------------------------------
\* SpecOrders: every handler, on a small menu, while the ordering pipeline
\* places orders

NextOrders ==
    \/ \E m \in {MaxId} : ExternalPlaceOrder(m)
    \/ \E p \in Passwords : login("ann", p)
    \/ \E tok \in ClientTokens : get_me(tok)
    \/ \E tok \in ClientTokens : get_categories(tok)
    \/ \E tok \in ClientTokens : add_category(tok, CategoryBody)
    \/ \E tok \in ClientTokens : update_category(tok, MaxId, CategoryBody)
    \/ \E tok \in ClientTokens : delete_category(tok, MaxId)
    \/ \E tok \in ClientTokens : get_menu_items(tok)
    \/ \E tok \in ClientTokens : add_menu_item(tok, ItemBody(MaxId))
    \/ \E tok \in ClientTokens, id \in Opt({MaxId + 1}) :
           update_menu_item(tok, MaxId, [ItemBody(MaxId) EXCEPT !.id = id])
    \/ \E tok \in ClientTokens : delete_menu_item(tok, MaxId)
    \/ \E tok \in ClientTokens, a \in BOOLEAN : block_menu_item(tok, MaxId, {a})
    \/ \E tok \in ClientTokens, st \in Opt({"ready", "new"}) : get_orders(tok, st, {}, {})
    \/ \E tok \in ClientTokens, id \in 1..MaxOrders : get_order_details(tok, id)
    \/ \E tok \in ClientTokens, d \in Opt({0, 1}) : orders_daily(tok, d)
    \/ \E tok \in ClientTokens, d \in Opt({0}) : top_menu_items(tok, d, {})
    \/ test_db_connection
    \/ hello_debug
    \/ debug_secret

SpecOrders == InitLate /\ [][NextOrders]_vars

----------------------------------------------------------------------------
\* Spec: the menu handlers addressed by id, on ids that exist and ids that
\* do not

Next ==
    \/ \E p \in Passwords : login("ann", p)
    \/ \E tok \in ClientTokens : get_categories(tok)
    \/ \E tok \in ClientTokens, cat \in CategoryBodiesSmall : add_category(tok, cat)
    \/ \E tok \in ClientTokens, id \in Ids, upd \in CategoryBodiesSmall :
           update_category(tok, id, upd)
    \/ \E tok \in ClientTokens, id \in Ids : delete_category(tok, id)
    \/ \E tok \in ClientTokens : get_menu_items(tok)
    \/ \E tok \in ClientTokens, item \in ItemBodiesSmall : add_menu_item(tok, item)
    \/ \E tok \in ClientTokens, id \in Ids, upd \in ItemBodiesSmall :
           update_menu_item(tok, id, upd)
    \/ \E tok \in ClientTokens, id \in Ids : delete_menu_item(tok, id)
    \/ \E tok \in ClientTokens, id \in Ids, a \in Opt({FALSE}) :
           block_menu_item(tok, id, a)

Spec == Init /\ [][Next]_vars

----------------------------------------------------------------------------
\* SpecMenu: the menu handlers on bodies over every choice of fields

NextMenu ==
    \/ login("ann", "pw1")
    \/ \E tok \in IssuedTokens : get_categories(tok)
    \/ \E tok \in IssuedTokens, cat \in CategoryBodies : add_category(tok, cat)
    \/ \E tok \in IssuedTokens, id \in Ids, upd \in CategoryBodies :
           update_category(tok, id, upd)
    \/ \E tok \in IssuedTokens, id \in Ids : delete_category(tok, id)
    \/ \E tok \in IssuedTokens : get_menu_items(tok)
    \/ \E tok \in IssuedTokens, item \in ItemBodies : add_menu_item(tok, item)
    \/ \E tok \in IssuedTokens, id \in Ids, upd \in ItemBodies :
           update_menu_item(tok, id, upd)
    \/ \E tok \in IssuedTokens, id \in Ids : delete_menu_item(tok, id)
    \/ \E tok \in IssuedTokens, id \in Ids, a \in Opt({FALSE}) :
           block_menu_item(tok, id, a)

SpecMenu == Init /\ [][NextMenu]_vars

----------------------------------------------------------------------------
\* Properties

\* resolve succeeds on the token, now
Resolves(tok) == get_current_user(tok, now, manager_user) # {}

\* the token is missing, malformed, wrongly signed, expired, or its sub names
\* no user
BadToken(tok) ==
    \/ tok.kind = "none"
    \/ tok.kind = "garbage"
    \/ tok.key # JWT_SECRET
    \/ tok.exp < now
    \/ ~\E u \in manager_user : IntToStr(u.id) = tok.sub

MenuUnchanged == UNCHANGED <<menu_category, menu_item>>

\* C1: a business request whose bearer token does not resolve (it is missing,
\* malformed, wrongly signed, expired or names no user) is answered 401, returns
\* no data and leaves the categories and the items as they were; so data is
\* returned and state is changed only if resolve succeeds.
C1_AuthRequired ==
    [][(/\ resp'.op \in BusinessOps
        /\ BadToken(resp'.token) \/ ~Resolves(resp'.token))
       => (/\ resp'.status = StatusUnauthorized
           /\ resp'.body = NoBody
           /\ MenuUnchanged)]_vars

\* C1's case: a delete with an expired token of login's is refused, and the
\* category it names is still there
C1_Witness ==
    /\ resp.op = "delete_category"
    /\ resp.status = StatusUnauthorized
    /\ resp.token \in IssuedTokens
    /\ resp.token.exp < now
    /\ CategoryById(Val(resp.id)) # {}

\* C2: a token login returned for matching credentials resolves, while it is not
\* expired and the user's row exists, to the row of the user login authenticated,
\* and at no time to another user's row.
C2_LoginResolveSameUser ==
    /\ \A g \in issued :
          /\ \E u \in Users : u.username = g.username /\ u.id = g.uid
          /\ \A u \in get_current_user(g.access_token, now, manager_user) : u.id = g.uid
          /\ (now < g.access_token.exp /\ \E u \in manager_user : u.id = g.uid)
                => get_current_user(g.access_token, now, manager_user)
                      = {u \in manager_user : u.id = g.uid}
    /\ (resp.op = "login" /\ resp.status = StatusOK)
          => \E g \in issued : g.access_token = resp.body.access_token

\* C2's case: the token of user 12, some hours after login, gets user 12 from
\* GET /auth/me
C2_Witness ==
    /\ resp.op = "get_me"
    /\ resp.status = StatusOK
    /\ resp.body.id = 12
    /\ \E g \in issued :
          /\ g.access_token = resp.token
          /\ g.uid = 12
          /\ g.at < now
          /\ now < g.access_token.exp

\* C3: a token of login's expires TokenTTLHours (12 hours) after it was issued;
\* at every time after that it does not resolve, and a business request that
\* carries it is answered 401, whatever happened in between.
C3_ExpiredTokenRejected ==
    /\ \A g \in issued :
          /\ g.access_token.exp = g.at + TokenTTLHours
          /\ now > g.access_token.exp
                => get_current_user(g.access_token, now, manager_user) = {}
    /\ (/\ resp.op \in BusinessOps
        /\ resp.token \in IssuedTokens
        /\ now > resp.token.exp)
          => resp.status = StatusUnauthorized

\* C3's case: GET /auth/me with a token past its expiry, of a user that still
\* exists, is answered 401
C3_Witness ==
    /\ resp.op = "get_me"
    /\ resp.status = StatusUnauthorized
    /\ \E g \in issued :
          /\ g.access_token = resp.token
          /\ now > g.access_token.exp
          /\ \E u \in manager_user : u.id = g.uid

PartialBody(b) == SetFields(b) # {} /\ SetFields(b) # DOMAIN b

\* C4 (as claimed): an update of an existing category or item with a body that
\* carries only some of the fields succeeds, sets exactly the fields sent on that
\* row and changes nothing else.
C4_PartialUpdateSucceeds ==
    [][/\ \A id \in Ids, upd \in CategoryBodies :
            (/\ resp'.op = "update_category"
             /\ update_category(resp'.token, id, upd)
             /\ Resolves(resp'.token)
             /\ CategoryById(id) # {}
             /\ PartialBody(upd))
            => (/\ resp'.status = StatusOK
                /\ menu_category' = (menu_category \ CategoryById(id))
                                       \cup {Patch(Val(CategoryById(id)), upd)}
                /\ menu_item' = menu_item)
       /\ \A id \in Ids, upd \in ItemBodies :
            (/\ resp'.op = "update_menu_item"
             /\ update_menu_item(resp'.token, id, upd)
             /\ Resolves(resp'.token)
             /\ ItemById(id) # {}
             /\ PartialBody(upd))
            => (/\ resp'.status = StatusOK
                /\ menu_item' = (menu_item \ ItemById(id))
                                   \cup {Patch(Val(ItemById(id)), upd)}
                /\ menu_category' = menu_category)]_vars

\* C5 (as claimed): every item's category_id names an existing category, and a
\* create-item request whose category_id names none is answered 422 and inserts
\* no row.
C5_CategoryReferenceChecked ==
    [][/\ \A i \in menu_item' : \E c \in menu_category' : c.id = i.category_id
       /\ \A item \in ItemBodies :
            (/\ resp'.op = "add_menu_item"
             /\ add_menu_item(resp'.token, item)
             /\ Resolves(resp'.token)
             /\ ValidBody(item, ItemRequired)
             /\ CategoryById(Val(item.category_id)) = {})
            => (/\ resp'.status = StatusUnprocessable
                /\ menu_item' = menu_item)]_vars

ByIdOps == {"update_category", "delete_category", "update_menu_item",
            "delete_menu_item", "block_menu_item"}

\* the row a request by id addresses
Target(op, id) ==
    IF op \in {"update_category", "delete_category"}
    THEN CategoryById(id) ELSE ItemById(id)

NotFoundOutcome == resp'.status = StatusNotFound /\ MenuUnchanged

C7_CreateIgnoresBodyId ==
    [][/\ \A cat \in CategoryBodies :
            (/\ resp'.op = "add_category"
             /\ add_category(resp'.token, cat)
             /\ Resolves(resp'.token)
             /\ ValidBody(cat, CategoryRequired)
             /\ cat.id # {}
             /\ CategoryById(category_seq) = {})
            => (/\ resp'.status = StatusOK
                /\ resp'.body.id = category_seq
                /\ menu_category' = menu_category
                       \cup {NewCategory([cat EXCEPT !.id = {}], category_seq)})
       /\ \A item \in ItemBodies :
            (/\ resp'.op = "add_menu_item"
             /\ add_menu_item(resp'.token, item)
             /\ Resolves(resp'.token)
             /\ ValidBody(item, ItemRequired)
             /\ item.id # {}
             /\ ItemById(item_seq) = {}
             /\ CategoryById(Val(item.category_id)) # {})
            => (/\ resp'.status = StatusOK
                /\ resp'.body.id = item_seq
                /\ menu_item' = menu_item
                       \cup {NewItem([item EXCEPT !.id = {}], item_seq)})]_vars

\* C8: no request changes the orders, order_item or order_event_log tables.
C8_OrdersReadOnly ==
    [][resp'.op # "none" => UNCHANGED <<orders, order_item, order_event_log>>]_vars

\* C8's case: a menu item that an order's line item names was deleted, and the
\* line item is still there
C8_Witness ==
    /\ resp.op = "delete_menu_item"
    /\ resp.status = StatusOK
    /\ OrderItemsOfItem(Val(resp.id)) # {}

\* C9 (as claimed): every request opens exactly one session and has closed it
\* when it completes.
C9_OneSessionReleased ==
    resp.op \in BusinessOps \cup {"login"}
        => (resp.opened = 1 /\ resp.closed = resp.opened)

\* C10 (as claimed): a successful update by path id leaves the set of ids as it
\* was and the row under the path id.
C10_UpdateKeepsIds ==
    [][/\ (resp'.op = "update_category" /\ resp'.status = StatusOK)
            => (/\ {c.id : c \in menu_category'} = {c.id : c \in menu_category}
                /\ \E c \in menu_category' : c.id = Val(resp'.id))
       /\ (resp'.op = "update_menu_item" /\ resp'.status = StatusOK)
            => (/\ {i.id : i \in menu_item'} = {i.id : i \in menu_item}
                /\ \E i \in menu_item' : i.id = Val(resp'.id))]_vars

====
